---- MODULE Spec2Model ----
(***************************************************************************)
(* Model of the contract validation engine (contractus_service/validator)  *)
(* and of the services around it.                                          *)
(*                                                                         *)
(* Python strings are sequences of one-character strings, so that strip,   *)
(* replace, float() and the freshness pattern are computed on the text.    *)
(* pandas is a library: its behaviour is modelled by cases on the cells of *)
(* a column (see ToDatetime, AstypeRaises).                                *)
(***************************************************************************)
EXTENDS Integers, Sequences, FiniteSets, TLC

VARIABLES
    contract,   \* the contract of the call
    rows,       \* the row set of the call
    now,        \* the wall clock, in ticks
    result,     \* what validate_rows returned (or that it raised)
    pc,         \* "call" before the call, "done" after it
    rows2,      \* a second row set validated against the same contract
    result2,    \* what validate_rows returned for rows2
    ids,        \* POST /validate: contract_id and owner of the request
    event,      \* POST /validate: the event the handler built
    posted,     \* POST /validate: the events posted to GOVERNIQ_URL/events
    response,   \* POST /validate: the response of the handler
    env,        \* governiq: SLACK_WEBHOOK and ALERT_DATASETS of os.environ
    events,     \* governiq: the rows of the table events, in order of id
    alerts,     \* governiq: the Slack alerts attempted, and how each ended
    reply,      \* governiq: what the last operation returned
    inserted    \* governiq: history of the insert_event calls (payload, time)

handlerVars == <<ids, event, posted, response>>

governiqVars == <<env, events, alerts, reply, inserted>>

vars == <<contract, rows, now, result, pc, rows2, result2, handlerVars, governiqVars>>

(***************************************************************************)
(* Bounds of the model.                                                    *)
(***************************************************************************)
\* longest row set that is validated
MaxRows == 2
\* clock resolution: ticks per second (timestamps carry sub-second parts)
TicksPerSecond == 2

(***************************************************************************)
(* Python string helpers.                                                  *)
(***************************************************************************)
Digits == {"0", "1", "2", "3", "4", "5", "6", "7", "8", "9"}

DigitVal(c) ==
    CASE c = "0" -> 0 [] c = "1" -> 1 [] c = "2" -> 2 [] c = "3" -> 3
      [] c = "4" -> 4 [] c = "5" -> 5 [] c = "6" -> 6 [] c = "7" -> 7
      [] c = "8" -> 8 [] c = "9" -> 9

\* str.strip(): the sequence without leading and trailing blanks
RECURSIVE LStrip(_)
LStrip(s) == IF s # <<>> /\ Head(s) = " " THEN LStrip(Tail(s)) ELSE s

RECURSIVE RStrip(_)
RStrip(s) ==
    IF s # <<>> /\ s[Len(s)] = " " THEN RStrip(SubSeq(s, 1, Len(s) - 1)) ELSE s

Strip(s) == RStrip(LStrip(s))

\* does pat occur in s at position 1
StartsWith(s, pat) ==
    /\ Len(s) >= Len(pat)
    /\ SubSeq(s, 1, Len(pat)) = pat

\* str.replace(pat, ""): one left-to-right pass over non-overlapping matches
RECURSIVE Remove(_, _)
Remove(s, pat) ==
    IF s = <<>> THEN <<>>
    ELSE IF StartsWith(s, pat) THEN Remove(SubSeq(s, Len(pat) + 1, Len(s)), pat)
    ELSE <<Head(s)>> \o Remove(Tail(s), pat)

\* the longest prefix of s made of digits
RECURSIVE DigitPrefix(_)
DigitPrefix(s) ==
    IF s # <<>> /\ Head(s) \in Digits
    THEN <<Head(s)>> \o DigitPrefix(Tail(s))
    ELSE <<>>

\* int() of a non-empty sequence of digits
RECURSIVE IntOf(_)
IntOf(ds) ==
    IF ds = <<>> THEN 0
    ELSE 10 * IntOf(SubSeq(ds, 1, Len(ds) - 1)) + DigitVal(ds[Len(ds)])

RECURSIVE Pow10(_)
Pow10(n) == IF n = 0 THEN 1 ELSE 10 * Pow10(n - 1)

(***************************************************************************)
(* float(): [sign] digits [. digits] over the alphabet of the expressions  *)
(* that are validated (digits, '.', '+', '-', blanks and other symbols;    *)
(* no exponent, "inf" or "nan" spelling occurs).  The value is kept exact: *)
(* an integer part and a fraction in units of 10^-EpsilonDigits.           *)
(***************************************************************************)
\* the tolerance of the completeness comparison is 10^-9
EpsilonDigits == 9

NanoPerUnit == Pow10(EpsilonDigits)

NoFloat == [ok |-> FALSE, neg |-> FALSE, int |-> 0, frac |-> 0]

Frac9(fp) ==
    LET d == IF Len(fp) > EpsilonDigits THEN SubSeq(fp, 1, EpsilonDigits) ELSE fp
    IN  IntOf(d) * Pow10(EpsilonDigits - Len(d))

ParseFloat(s) ==
    LET signed == s # <<>> /\ Head(s) \in {"+", "-"}
        body   == IF signed THEN Tail(s) ELSE s
        ip     == DigitPrefix(body)
        rest   == SubSeq(body, Len(ip) + 1, Len(body))
        fp     == IF rest # <<>> /\ Head(rest) = "." THEN DigitPrefix(Tail(rest)) ELSE <<>>
        rest2  == IF rest # <<>> /\ Head(rest) = "."
                  THEN SubSeq(rest, Len(fp) + 2, Len(rest))
                  ELSE rest
    IN  IF rest2 = <<>> /\ (ip # <<>> \/ fp # <<>>)
        THEN [ok |-> TRUE, neg |-> signed /\ Head(s) = "-",
              int |-> IntOf(ip), frac |-> Frac9(fp)]
        ELSE NoFloat

\* ratio + 1e-9 < target, for ratio = 100 * k / n (n > 0), in exact arithmetic
RatioBelowTarget(k, n, target) ==
    LET q == (100 * k) \div n
        r == (100 * k) % n
        \* floor(r * 10^9 / n), computed without leaving 32 bits
        x == r * (NanoPerUnit \div n) + (r * (NanoPerUnit % n)) \div n
    IN  IF target.neg THEN FALSE
        ELSE IF q # target.int THEN q < target.int
        ELSE x < target.frac - 1

\* f"{ratio:.2f}" as hundredths of a percent
FormatRatio(k, n) == (20000 * k + n) \div (2 * n)

\* f"{target:.2f}" as hundredths of a percent
FormatTarget(target) ==
    LET c == target.int * 100
             + (target.frac + 5 * Pow10(EpsilonDigits - 3)) \div Pow10(EpsilonDigits - 2)
    IN  IF target.neg THEN 0 - c ELSE c

(***************************************************************************)
(* Rows.  A row maps every column name of AllCols to a cell; a key that    *)
(* the row does not have is the cell Missing.  Cells are tagged:           *)
(*   missing   the row has no such key          null      None             *)
(*   int       an integer                       str_num   "10.5"           *)
(*   bool      True (v = 1) or False (v = 0)                               *)
(*   str_bad   a text that is neither a number nor a date ("bad")          *)
(*   str_empty ""                                                          *)
(*   ts_naive  a date-time text without offset; v is its reading in ticks  *)
(*   ts_aware  a date-time text with a UTC offset; v is the instant in     *)
(*             ticks (UTC reading), off the offset in ticks                *)
(*   nat       NaT, the null produced by to_datetime                       *)
(***************************************************************************)
ColA  == <<"a">>
ColTs == <<"t", "s">>
AllCols == {ColA, ColTs}

Cell(tag, v, off) == [tag |-> tag, v |-> v, off |-> off]
Missing  == Cell("missing", 0, 0)
Null     == Cell("null", 0, 0)
NaT      == Cell("nat", 0, 0)
IntCell(n) == Cell("int", n, 0)
BoolCell(b) == Cell("bool", IF b THEN 1 ELSE 0, 0)
StrNum   == Cell("str_num", 0, 0)
StrBad   == Cell("str_bad", 0, 0)
StrEmpty == Cell("str_empty", 0, 0)
TsNaive(t)      == Cell("ts_naive", t, 0)
TsAware(t, off) == Cell("ts_aware", t, off)

TextTags == {"str_num", "str_bad", "str_empty", "ts_naive", "ts_aware"}
NullTags == {"missing", "null", "nat"}

\* pd.DataFrame(rows).columns: the keys some row has
DfColumns(rs) ==
    {c \in AllCols : \E i \in 1..Len(rs) : rs[i][c].tag # "missing"}

\* pd.DataFrame(rows): one sequence of cells per column
DataFrame(rs) ==
    [c \in DfColumns(rs) |-> [i \in 1..Len(rs) |-> rs[i][c]]]

\* Series.isna / notnull of one cell
IsNa(cell) == cell.tag \in NullTags

\* pd.to_datetime(errors="coerce") of one cell
ToDatetime(cell) ==
    CASE cell.tag \in NullTags                 -> NaT
      [] cell.tag \in {"str_bad", "str_empty"} -> NaT
      [] cell.tag \in {"ts_naive", "ts_aware"} -> cell

\* does Series.astype(pdt) raise on a column with these cells (booleans
\* are not cast to Int64 in any input)
AstypeRaises(pdt, cells) ==
    CASE pdt = "string"  -> FALSE
      [] pdt = "float"   ->
            \E i \in DOMAIN cells : cells[i].tag \in TextTags \ {"str_num"}
      [] pdt = "Int64" /\ (\A i \in DOMAIN cells : cells[i].tag # "bool") ->
            \E i \in DOMAIN cells : cells[i].tag \in TextTags
      [] pdt = "boolean" ->
            \E i \in DOMAIN cells :
                \/ cells[i].tag \in TextTags
                \/ cells[i].tag = "int" /\ cells[i].v \notin {0, 1}

(***************************************************************************)
(* TYPE_MAP and _pandas_dtype_for.                                         *)
(***************************************************************************)
\* str.lower() on the type tags that occur
Lower(t) ==
    CASE t = "DateTime" -> "datetime"
      [] t = "Float"    -> "float"
      [] OTHER          -> t

TYPE_MAP ==
    [t \in {"string", "float", "double", "number", "integer", "int",
            "boolean", "bool", "datetime", "timestamp", "date"} |->
        CASE t = "string"                           -> "string"
          [] t \in {"float", "double", "number"}    -> "float"
          [] t \in {"integer", "int"}               -> "Int64"
          [] t \in {"boolean", "bool"}              -> "boolean"
          [] t \in {"datetime", "timestamp", "date"} -> "datetime64[ns]"]

\* mutant: an unknown type tag falls back to float
_pandas_dtype_for_DefaultFloat(t) ==
    IF Lower(t) \in DOMAIN TYPE_MAP THEN TYPE_MAP[Lower(t)] ELSE "float"

_pandas_dtype_for(t) ==
    IF Lower(t) \in DOMAIN TYPE_MAP THEN TYPE_MAP[Lower(t)] ELSE "string"

(***************************************************************************)
(* Verdict entries.  An error or warning text is a record of its fixed     *)
(* part (kind) and of the values formatted into it.                        *)
(***************************************************************************)
Msg(kind, col, raw, pdt, x, y) ==
    [kind |-> kind, col |-> col, raw |-> raw, pdt |-> pdt, x |-> x, y |-> y]

MissingSchemaMsg      == Msg("Missing 'schema' in contract", <<>>, <<>>, "", 0, 0)
MissingColumnMsg(col) == Msg("Missing required column", col, <<>>, "", 0, 0)
InvalidDatetimeMsg(col) == Msg("has invalid datetime values", col, <<>>, "", 0, 0)
FailedCoercionMsg(col, pdt) == Msg("failed coercion to", col, <<>>, pdt, 0, 0)
CompletenessMsg(ratio, target) == Msg("Completeness below target", <<>>, <<>>, "", ratio, target)
CompletenessWarn(raw) == Msg("Could not parse completeness SLA", <<>>, raw, "", 0, 0)
NoTimestampsMsg(field) == Msg("No valid timestamps to assess freshness", field, <<>>, "", 0, 0)
FreshnessMsg(field, raw) == Msg("Freshness violated", field, raw, "", 0, 0)
FreshnessWarn(raw) == Msg("Could not parse freshness SLA", <<>>, raw, "", 0, 0)

\* {"dimension": ..., "actual" or "actual_seconds": ..., "expected": ...}
Violation(dimension, key, actual, expected) ==
    [dimension |-> dimension, key |-> key, actual |-> actual, expected |-> expected]

Verdict(status, warnings, errors, violations) ==
    [raised |-> FALSE, status |-> status, warnings |-> warnings,
     errors |-> errors, violations |-> violations]

\* the call ends with an exception instead of a verdict
Raised == [raised |-> TRUE, status |-> "", warnings |-> <<>>,
           errors |-> <<>>, violations |-> <<>>]

(***************************************************************************)
(* Contracts.  schema is None or a dict, kept as the sequence of its       *)
(* (column, type) items in insertion order; sla is None or a dict whose    *)
(* values are None (also: key absent), a string or a number.               *)
(***************************************************************************)
NoneVal   == [t |-> "none", s |-> <<>>, n |-> 0]
StrVal(s) == [t |-> "str", s |-> s, n |-> 0]
NumVal(n) == [t |-> "num", s |-> <<>>, n |-> n]

Item(col, typ) == [col |-> col, typ |-> typ]

NoSchema      == [t |-> "none", items |-> <<>>]
Schema(items) == [t |-> "dict", items |-> items]

NoSla == [t |-> "none", completeness |-> NoneVal, freshness |-> NoneVal,
          freshness_field |-> NoneVal]
Sla(completeness, freshness, freshness_field) ==
    [t |-> "dict", completeness |-> completeness, freshness |-> freshness,
     freshness_field |-> freshness_field]

\* (value or ""): None, "" and 0 are falsy
OrEmpty(val) == IF val.t = "str" THEN val.s ELSE <<>>

\* (value or "").strip() raises AttributeError on a truthy non-string
StripRaises(val) == val.t = "num" /\ val.n # 0

(***************************************************************************)
(* validate_rows, lines 31-46: coercion of the declared columns, in the    *)
(* order of the schema.  df maps each column of the frame to its cells.    *)
(***************************************************************************)
RECURSIVE CoerceFrom(_, _, _, _)
CoerceFrom(schema, i, df, errors) ==
    IF i > Len(schema) THEN [df |-> df, errors |-> errors]
    ELSE
      LET col == schema[i].col
          pdt == _pandas_dtype_for(schema[i].typ)
      IN  IF col \notin DOMAIN df
          THEN CoerceFrom(schema, i + 1, df, Append(errors, MissingColumnMsg(col)))
          ELSE IF pdt = "datetime64[ns]"
          THEN LET conv == [j \in DOMAIN df[col] |-> ToDatetime(df[col][j])]
               IN  CoerceFrom(schema, i + 1, [df EXCEPT ![col] = conv],
                              IF \E j \in DOMAIN conv : IsNa(conv[j])
                              THEN Append(errors, InvalidDatetimeMsg(col))
                              ELSE errors)
          ELSE IF AstypeRaises(pdt, df[col])
          THEN CoerceFrom(schema, i + 1, df, Append(errors, FailedCoercionMsg(col, pdt)))
          ELSE CoerceFrom(schema, i + 1, df, errors)

\* what one SLA check appends to errors, warnings and violations
Appends(e, w, v) == [e |-> e, w |-> w, v |-> v]
Nothing == Appends(<<>>, <<>>, <<>>)

RequiredCols(schema) == {schema[i].col : i \in DOMAIN schema}

\* number of rows of the frame in which every required column is non-null
FullRows(required, df, n) ==
    Cardinality({j \in 1..n : \A c \in required : ~IsNa(df[c][j])})

(***************************************************************************)
(* validate_rows, lines 50-58: the completeness check, for comp # "".      *)
(* df[required_cols] raises KeyError when a required column is not in the  *)
(* frame; the except clause turns every exception into the warning.        *)
(***************************************************************************)
\* mutant: the violation record is appended without its error string
CompletenessViolation_NoError(k, n, target, comp) ==
    Appends(<<>>, <<>>,
            <<Violation("completeness", "actual", FormatRatio(k, n), comp)>>)

\* lines 55-56: what a completeness below target appends
CompletenessViolation(k, n, target, comp) ==
    Appends(<<CompletenessMsg(FormatRatio(k, n), FormatTarget(target))>>,
            <<>>,
            <<Violation("completeness", "actual", FormatRatio(k, n), comp)>>)

CompletenessCheck(comp, schema, df, n) ==
    LET target   == ParseFloat(Strip(Remove(Remove(comp, <<">", "=">>), <<"%">>)))
        required == RequiredCols(schema)
    IN  IF ~target.ok \/ ~(required \subseteq DOMAIN df)
        THEN Appends(<<>>, <<CompletenessWarn(comp)>>, <<>>)
        ELSE LET \* with no required column the ratio is 100.0
                 k  == IF required = {} THEN 1 ELSE FullRows(required, df, n)
                 n1 == IF required = {} THEN 1 ELSE n
             IN  IF RatioBelowTarget(k, n1, target)
                 THEN CompletenessViolation(k, n1, target, comp)
                 ELSE Nothing

(***************************************************************************)
(* validate_rows, lines 63-82: the freshness check, for a non-empty        *)
(* expression and a field that is a column of the frame.                   *)
(***************************************************************************)
UnitSeconds == [u \in {"s", "m", "h", "d"} |->
                  CASE u = "s" -> 1 [] u = "m" -> 60 [] u = "h" -> 3600 [] u = "d" -> 86400]

\* re.match(r"(\d+)\s*([smhd])", freshness): digits, blanks, a unit; the
\* match is anchored at the start only
FreshnessMatch(freshness) ==
    LET digits == DigitPrefix(freshness)
        rest   == LStrip(SubSeq(freshness, Len(digits) + 1, Len(freshness)))
    IN  IF digits # <<>> /\ rest # <<>> /\ Head(rest) \in DOMAIN UnitSeconds
        THEN [ok |-> TRUE, amount |-> IntOf(digits), unit |-> Head(rest)]
        ELSE [ok |-> FALSE, amount |-> 0, unit |-> ""]

\* the instant of a valid timestamp, by which Series.max orders
Instant(cell) == cell.v

\* max_ts.tz_localize(None) if max_ts.tzinfo is not None else max_ts:
\* the reading of the timestamp in its own zone, the offset dropped
TzNaive(cell) == IF cell.tag = "ts_aware" THEN cell.v + cell.off ELSE cell.v

FreshnessCheck(freshness, freshness_field, df, t) ==
    LET m == FreshnessMatch(freshness)
    IN  IF ~m.ok THEN Appends(<<>>, <<FreshnessWarn(freshness)>>, <<>>)
        ELSE
          LET seconds == UnitSeconds[m.unit] * m.amount
              col     == df[freshness_field]
              ts      == [j \in DOMAIN col |-> ToDatetime(col[j])]
              valid   == {j \in DOMAIN ts : ~IsNa(ts[j])}
          IN  IF valid = {}
              THEN Appends(<<NoTimestampsMsg(freshness_field)>>, <<>>, <<>>)
              ELSE
                LET max_ts  == ts[CHOOSE j \in valid :
                                    \A i \in valid : Instant(ts[i]) <= Instant(ts[j])]
                    age     == t - TzNaive(max_ts)
                IN  IF age > seconds * TicksPerSecond
                    THEN Appends(<<FreshnessMsg(freshness_field, freshness)>>,
                                 <<>>,
                                 <<Violation("freshness", "actual_seconds",
                                             age \div TicksPerSecond, freshness)>>)
                    ELSE Nothing

\* mutant: a freshness expression whose check is skipped is warned about
FreshnessStep_WarnsOnSkip(freshness, freshness_field, df, t) ==
    IF freshness # <<>> /\ freshness_field # <<>> /\ freshness_field \in DOMAIN df
    THEN FreshnessCheck(freshness, freshness_field, df, t)
    ELSE IF freshness # <<>>
         THEN Appends(<<>>, <<FreshnessWarn(freshness)>>, <<>>)
         ELSE Nothing

\* line 62: the check runs for a non-empty expression and a non-empty field
\* that is a column of the frame, and is skipped otherwise
FreshnessStep(freshness, freshness_field, df, t) ==
    IF freshness # <<>> /\ freshness_field # <<>> /\ freshness_field \in DOMAIN df
    THEN FreshnessCheck(freshness, freshness_field, df, t)
    ELSE Nothing

(***************************************************************************)
(* validate_rows(contract, rows); t is the reading of the wall clock that  *)
(* pd.Timestamp.utcnow() returns during the call.                          *)
(***************************************************************************)
\* contract.get("schema") or {}
SchemaOf(c) == IF c.schema.t = "none" THEN <<>> ELSE c.schema.items

\* contract.get("sla") or {}
SlaOf(c) == IF c.sla.t = "none" THEN NoSla ELSE c.sla

\* mutant: a warning fails the verdict as an error does
Assemble_WarningsFail(errors, warnings, violations) ==
    Verdict(IF errors # <<>> \/ warnings # <<>> THEN "fail" ELSE "pass",
            warnings, errors, violations)

\* lines 84-86: the verdict of the accumulated lists
Assemble(errors, warnings, violations) ==
    Verdict(IF errors # <<>> THEN "fail" ELSE "pass", warnings, errors, violations)

\* lines 29-86: coercion, the two SLA checks and the verdict
Checks(c, rs, t) ==
    LET schema == SchemaOf(c)
        sla    == SlaOf(c)
        co     == CoerceFrom(schema, 1, DataFrame(rs), <<>>)
        comp   == Strip(OrEmpty(sla.completeness))
        c1     == IF comp # <<>>
                  THEN CompletenessCheck(comp, schema, co.df, Len(rs))
                  ELSE Nothing
        freshness       == Strip(OrEmpty(sla.freshness))
        freshness_field == Strip(OrEmpty(sla.freshness_field))
        f1     == FreshnessStep(freshness, freshness_field, co.df, t)
    IN  IF \/ StripRaises(sla.completeness)
           \/ StripRaises(sla.freshness)
           \/ StripRaises(sla.freshness_field)
        THEN Raised
        ELSE Assemble(co.errors \o c1.e \o f1.e, c1.w \o f1.w, c1.v \o f1.v)

\* mutant: no early return for an empty schema
validate_rows_NoShortCircuit(c, rs, t) == Checks(c, rs, t)

validate_rows(c, rs, t) ==
    IF SchemaOf(c) = <<>>
    THEN Verdict("fail", <<>>, <<MissingSchemaMsg>>, <<>>)
    ELSE Checks(c, rs, t)

(***************************************************************************)
(* The inputs that are validated: families of contracts and row sets, each *)
(* family varying one part of the input.                                   *)
(***************************************************************************)
Sec(n) == n * TicksPerSecond

\* the wall clock at the call
Now0 == Sec(400000)

\* instants of the timestamps in the rows
TFresh    == Now0 - Sec(10)
THour     == Now0 - Sec(3600)
THourPast == Now0 - Sec(3600) - 1
TOld      == Now0 - Sec(10800)

\* how the timestamps of one row set are written: without offset, with
\* offset +00:00, with offset +05:00
Flavours == {"naive", "utc", "plus5"}

Ts(fl, t) ==
    CASE fl = "naive" -> TsNaive(t)
      [] fl = "utc"   -> TsAware(t, 0)
      [] fl = "plus5" -> TsAware(t, Sec(18000))

Row(a, ts) == (ColA :> a) @@ (ColTs :> ts)

Contract(schema, sla) == [schema |-> schema, sla |-> sla]

Text_ts    == StrVal(ColTs)
Text_zz    == StrVal(<<"z", "z">>)
Text_ge100 == StrVal(<<">", "=", "1", "0", "0", "%">>)
Text_ge50  == StrVal(<<">", "=", "5", "0", "%">>)
Text_1h    == StrVal(<<"1", "h">>)

\* --- coercion: every type tag against every kind of cell, no SLA --------
TypeTags == {"string", "float", "double", "number", "integer", "int", "boolean",
             "bool", "Float", "uuid", ""}

DatetimeTags == {"datetime", "timestamp", "date", "DateTime"}

CoercionSchemas ==
    {NoSchema, Schema(<<>>)}
    \cup {Schema(<<Item(ColA, t)>>) : t \in TypeTags}
    \cup {Schema(<<Item(ColA, t), Item(ColTs, "datetime")>>) : t \in {"float", "integer", "string"}}
    \cup {Schema(<<Item(ColTs, "timestamp"), Item(ColA, t)>>) : t \in {"float", "boolean"}}

CoercionRows ==
    {Row(a, Missing) : a \in {Missing, Null, IntCell(1), IntCell(7), StrNum, StrBad}}
    \cup {Row(a, TsNaive(TFresh)) : a \in {Missing, IntCell(1), StrBad}}

CoercionSlas == {NoSla, Sla(NoneVal, NoneVal, NoneVal)}

\* --- boolean cells --------------------------------------------------------
BooleanSchemas ==
    {Schema(<<Item(ColA, t)>>) : t \in {"boolean", "bool", "string", "float"}}

BooleanRows ==
    {Row(a, Missing) : a \in {BoolCell(TRUE), BoolCell(FALSE), Null, StrBad}}

\* --- datetime columns: every kind of timestamp cell ---------------------
DatetimeSchemas ==
    {Schema(<<Item(ColTs, t)>>) : t \in DatetimeTags \cup {"string", "float"}}

DatetimeRows ==
    {Row(Missing, ts) : ts \in {Missing, Null, StrBad, StrEmpty, TsNaive(TFresh), TsNaive(TOld)}}

DatetimeSlas == {NoSla, Sla(Text_ge100, NoneVal, NoneVal)}

\* --- completeness --------------------------------------------------------
CompletenessTexts ==
    {NoneVal, StrVal(<<>>), StrVal(<<" ", " ">>),
     Text_ge100, Text_ge50,
     StrVal(<<"5", "0">>),
     StrVal(<<" ", ">", "=", " ", "5", "0", " ", "%", " ">>),
     StrVal(<<">", "=", "5", "0", ".", "0", "0", "0", "0", "0", "0", "0", "0", "1", "%">>),
     StrVal(<<">", "=", "5", "0", ".", "0", "0", "0", "0", "0", "0", "0", "0", "2", "%">>),
     StrVal(<<">", "=", "4", "9", ".", "9", "9", "%">>),
     StrVal(<<">", "=", "0", "%">>),
     StrVal(<<"-", "5", "%">>),
     StrVal(<<"x", "%">>),
     StrVal(<<"%", ">", "=">>),
     StrVal(<<">", " ", "=", "5", "0">>),
     StrVal(<<">", ">", "=", "=", "5", "0">>),
     StrVal(<<">", "=", "5", " ", "0", "%">>)}

CompletenessSchemas ==
    {Schema(<<Item(ColA, "float")>>),
     Schema(<<Item(ColA, "string"), Item(ColTs, "datetime")>>),
     Schema(<<Item(ColTs, "timestamp")>>)}

CompletenessRows ==
    {Row(a, ts) : a \in {Missing, Null, IntCell(1)},
                  ts \in {Missing, StrBad, TsNaive(TFresh)}}

CompletenessSlas == {Sla(comp, NoneVal, NoneVal) : comp \in CompletenessTexts}

\* --- freshness -----------------------------------------------------------
FreshnessTexts ==
    {NoneVal, StrVal(<<>>), StrVal(<<" ">>),
     Text_1h,
     StrVal(<<" ", "1", " ", "h", " ">>),
     StrVal(<<"6", "0", "m">>),
     StrVal(<<"3", "6", "0", "0", "s">>),
     StrVal(<<"1", "d">>),
     StrVal(<<"0", "s">>),
     StrVal(<<"2", "h">>),
     StrVal(<<"1", "h", "x">>),
     StrVal(<<"1", "h", "o", "u", "r">>),
     StrVal(<<"h", "1">>),
     StrVal(<<"1">>),
     StrVal(<<"x", "1", "h">>),
     StrVal(<<"1", ".", "5", "h">>)}

FreshnessSlas ==
    {Sla(NoneVal, f, Text_ts) : f \in FreshnessTexts}
    \cup {Sla(NoneVal, f, ff) :
            f \in {Text_1h, StrVal(<<"h", "1">>), StrVal(<<"1", "h", "x">>)},
            ff \in {NoneVal, StrVal(<<>>), Text_zz, StrVal(<<" ", "t", "s", " ">>)}}

FreshnessSchemas ==
    {Schema(<<Item(ColTs, "datetime")>>),
     Schema(<<Item(ColTs, "string")>>),
     Schema(<<Item(ColA, "integer")>>)}

FreshnessRows(fl) ==
    {Row(IntCell(1), ts) :
        ts \in {Missing, Null, StrBad}
               \cup {Ts(fl, t) : t \in {TFresh, THour, THourPast, TOld}}}


\* --- everything at once --------------------------------------------------
MixedRows ==
    {Row(Null, TsNaive(TOld)), Row(IntCell(1), TsNaive(TFresh)),
     Row(StrBad, StrBad), Row(Missing, TsNaive(THourPast)), Row(IntCell(1), Missing)}

MixedSchemas ==
    {NoSchema, Schema(<<>>),
     Schema(<<Item(ColA, "float"), Item(ColTs, "datetime")>>),
     Schema(<<Item(ColTs, "string"), Item(ColA, "integer")>>)}

MixedSlas ==
    {Sla(comp, f, Text_ts) :
        comp \in {Text_ge100, Text_ge50, StrVal(<<"x", "%">>)},
        f \in {Text_1h, StrVal(<<"h", "1">>), StrVal(<<"1", "d">>)}}

\* --- SLA values that are JSON numbers (sla: Dict[str, Any]) ---------------
NumericSlas ==
    {Sla(NumVal(95), NoneVal, NoneVal),
     Sla(NoneVal, NumVal(3600), Text_ts),
     Sla(Text_ge50, Text_1h, NumVal(1)),
     Sla(NumVal(0), NumVal(0), Text_ts),
     Sla(Text_ge50, Text_1h, Text_ts)}

NumericSchemas ==
    {NoSchema, Schema(<<Item(ColA, "integer")>>),
     Schema(<<Item(ColA, "float"), Item(ColTs, "datetime")>>)}

NumericRows ==
    {Row(IntCell(1), TsNaive(TFresh)), Row(Null, TsNaive(TOld)), Row(IntCell(7), Missing)}

(***************************************************************************)
(* One call of validate_rows on one input.                                 *)
(***************************************************************************)
NoIds      == [contract_id |-> "", owner |-> ""]
NoEvent    == [built |-> FALSE]
NoResponse == [pending |-> TRUE]

\* no request to POST /validate is in progress
HandlerIdle ==
    /\ ids = NoIds
    /\ event = NoEvent
    /\ posted = <<>>
    /\ response = NoResponse

NoEnv   == [SLACK_WEBHOOK |-> <<>>, ALERT_DATASETS |-> <<>>]
NoReply == [op |-> "none"]

\* the event service has an empty table and has served nothing
GoverniqIdle ==
    /\ env = NoEnv
    /\ events = <<>>
    /\ alerts = <<>>
    /\ reply = NoReply
    /\ inserted = <<>>

NoResult == [raised |-> FALSE, status |-> "none", warnings |-> <<>>,
             errors |-> <<>>, violations |-> <<>>]

\* a call on a contract and a row set drawn from one family
InitFrom(schemas, slas, rowset) ==
    \E sc \in schemas, sla \in slas, m \in 0..MaxRows :
        \E rs \in [1..m -> rowset] :
            /\ contract = Contract(sc, sla)
            /\ rows = rs
            /\ now = Now0
            /\ result = NoResult
            /\ pc = "call"
            /\ rows2 = <<>>
            /\ result2 = NoResult
            /\ HandlerIdle
            /\ GoverniqIdle

Init ==
    \/ InitFrom(CoercionSchemas, CoercionSlas, CoercionRows)
    \/ InitFrom(BooleanSchemas, CoercionSlas, BooleanRows)
    \/ InitFrom(DatetimeSchemas, DatetimeSlas, DatetimeRows)
    \/ InitFrom(CompletenessSchemas, CompletenessSlas, CompletenessRows)
    \/ \E fl \in Flavours : InitFrom(FreshnessSchemas, FreshnessSlas, FreshnessRows(fl))
    \/ InitFrom(MixedSchemas, MixedSlas, MixedRows)
    \/ InitFrom(NumericSchemas, NumericSlas, NumericRows)

Validate ==
    /\ pc = "call"
    /\ result' = validate_rows(contract, rows, now)
    /\ pc' = "done"
    /\ UNCHANGED <<contract, rows, now, rows2, result2, handlerVars, governiqVars>>

Next == Validate

Spec == Init /\ [][Next]_vars

(***************************************************************************)
(* Two calls of validate_rows with one contract and two row sets of the    *)
(* same size.                                                              *)
(***************************************************************************)
PairSchemas ==
    {Schema(<<Item(ColA, "float")>>),
     Schema(<<Item(ColA, "string"), Item(ColTs, "datetime")>>)}

PairSlas ==
    {Sla(comp, NoneVal, NoneVal) :
        comp \in {Text_ge100, Text_ge50, StrVal(<<">", "=", "0", "%">>),
                  StrVal(<<"x", "%">>)}}

PairRows ==
    {Row(a, ts) : a \in {Missing, Null, IntCell(1)}, ts \in {Missing, TsNaive(TFresh)}}

InitPair ==
    \E sc \in PairSchemas, sla \in PairSlas, m \in 0..MaxRows :
        \E rs \in [1..m -> PairRows], rs2 \in [1..m -> PairRows] :
            /\ contract = Contract(sc, sla)
            /\ rows = rs
            /\ rows2 = rs2
            /\ now = Now0
            /\ result = NoResult
            /\ result2 = NoResult
            /\ pc = "call"
            /\ HandlerIdle
            /\ GoverniqIdle

ValidateSecond ==
    /\ pc = "done"
    /\ result2' = validate_rows(contract, rows2, now)
    /\ pc' = "done2"
    /\ UNCHANGED <<contract, rows, now, result, rows2, handlerVars, governiqVars>>

NextPair == Validate \/ ValidateSecond

SpecPair == InitPair /\ [][NextPair]_vars

(***************************************************************************)
(* Two calls of validate_rows with one contract and one row set, while the *)
(* wall clock that line 73 reads runs on.                                  *)
(***************************************************************************)
MaxClock == 2

\* the readings of the wall clock: up to MaxClock seconds and up to
\* MaxClock hours after the first one
ClockReadings ==
    {Now0 + Sec(k) : k \in 0..MaxClock} \cup {Now0 + Sec(3600 * k) : k \in 0..MaxClock}

ClockSchemas ==
    {Schema(<<Item(ColTs, "datetime")>>), Schema(<<Item(ColA, "integer")>>)}

ClockSlas ==
    {Sla(NoneVal, f, Text_ts) : f \in {NoneVal, Text_1h, StrVal(<<"1", "d">>), StrVal(<<"h", "1">>)}}
    \cup {Sla(Text_ge100, Text_1h, Text_ts)}

ClockRows ==
    {Row(IntCell(1), ts) :
        ts \in {Missing, StrBad, TsNaive(TFresh), TsNaive(THour), TsAware(TOld, 0)}}

InitClock ==
    \E sc \in ClockSchemas, sla \in ClockSlas, m \in 0..MaxRows :
        \E rs \in [1..m -> ClockRows] :
            /\ contract = Contract(sc, sla)
            /\ rows = rs
            /\ rows2 = rs
            /\ now = Now0
            /\ result = NoResult
            /\ result2 = NoResult
            /\ pc = "call"
            /\ HandlerIdle
            /\ GoverniqIdle

\* time passes: pd.Timestamp.utcnow() will return a later reading
Tick ==
    /\ \E t \in ClockReadings : t > now /\ now' = t
    /\ UNCHANGED <<contract, rows, result, pc, rows2, result2, handlerVars, governiqVars>>

NextClock == Validate \/ Tick \/ ValidateSecond

SpecClock == InitClock /\ [][NextClock]_vars

(***************************************************************************)
(* contractus_service/app.py, POST /validate: validate the rows of the     *)
(* request, build the event, forward it to GOVERNIQ_URL/events, respond.   *)
(***************************************************************************)
\* how requests.post(..., timeout=3) ends: a response with a status code,
\* or an exception
Answered(code) == [raised |-> FALSE, status_code |-> code, reason |-> ""]
Failed(reason) == [raised |-> TRUE, status_code |-> 0, reason |-> reason]

ForwardOutcomes ==
    {Answered(200), Answered(422), Answered(500),
     Failed("ConnectionError"), Failed("ReadTimeout")}

\* lines 60 and 62: r.status_code, or f"failed: {ex}"
forwarded_to_governiq(outcome) ==
    IF outcome.raised
    THEN [failed |-> outcome.reason]
    ELSE [status_code |-> outcome.status_code]

\* the dict that validate_rows returned
VerdictDict(r) ==
    [status |-> r.status, warnings |-> r.warnings, errors |-> r.errors,
     violations |-> r.violations]

\* line 48: str(ex) and type(ex).__name__ of the exception of line 48/60/61
\* of the validator
ErrorResponse ==
    [error |-> "'int' object has no attribute 'strip'", type |-> "AttributeError"]

\* lines 49-57
BuildEvent(i, r) ==
    [dataset |-> i.contract_id, contract_id |-> i.contract_id, owner |-> i.owner,
     status |-> r.status, errors |-> r.errors, warnings |-> r.warnings,
     violations |-> r.violations]

\* lines 49-63: the event is posted as built, the outcome is written into
\* it, verdict and event are returned
Forward(i, r, outcome, sent) ==
    LET ev  == BuildEvent(i, r)
        ev2 == ev @@ [forwarded_to_governiq |-> forwarded_to_governiq(outcome)]
    IN  [result   |-> r,
         event    |-> ev2,
         posted   |-> Append(sent, [json |-> ev, outcome |-> outcome]),
         response |-> [validation |-> VerdictDict(r), event |-> ev2]]

\* mutant: a forwarding exception becomes the response
validate_ForwardFailureFails(i, c, rs, t, outcome, sent) ==
    LET r == validate_rows(c, rs, t)
    IN  IF r.raised
        THEN [result |-> r, event |-> NoEvent, posted |-> sent, response |-> ErrorResponse]
        ELSE IF outcome.raised
        THEN [Forward(i, r, outcome, sent) EXCEPT
                 !.response = [error |-> outcome.reason, type |-> outcome.reason]]
        ELSE Forward(i, r, outcome, sent)

\* mutant: the event is built and posted whether or not a verdict exists
validate_ForwardsAnyway(i, c, rs, t, outcome, sent) ==
    LET r == validate_rows(c, rs, t)
    IN  IF r.raised
        THEN [Forward(i, r, outcome, sent) EXCEPT !.response = ErrorResponse]
        ELSE Forward(i, r, outcome, sent)

\* lines 42-63
validate(i, c, rs, t, outcome, sent) ==
    LET r == validate_rows(c, rs, t)
    IN  IF r.raised
        THEN [result |-> r, event |-> NoEvent, posted |-> sent, response |-> ErrorResponse]
        ELSE Forward(i, r, outcome, sent)

HandlerIds ==
    {[contract_id |-> "orders_v1", owner |-> "sales"],
     [contract_id |-> "users_v2", owner |-> ""]}

InitHandler == InitFrom(NumericSchemas, NumericSlas, NumericRows)

PostValidate ==
    /\ pc = "call"
    /\ \E i \in HandlerIds, outcome \in ForwardOutcomes :
          LET h == validate(i, contract, rows, now, outcome, posted)
          IN  /\ ids' = i
              /\ result' = h.result
              /\ event' = h.event
              /\ posted' = h.posted
              /\ response' = h.response
    /\ pc' = "responded"
    /\ UNCHANGED <<contract, rows, now, rows2, result2, governiqVars>>

NextHandler == PostValidate

SpecHandler == InitHandler /\ [][NextHandler]_vars

(***************************************************************************)
(* governiq_service/store.py: the table events(id, ts, payload), to which  *)
(* migrate_events_schema of governiq_service/app.py adds the columns       *)
(* dataset, contract_id, owner, status, errors, warnings, violations.      *)
(***************************************************************************)
\* most rows the table gets
MaxEvents == 3

SqlNull    == [null |-> TRUE, v |-> <<>>]
SqlText(v) == [null |-> FALSE, v |-> v]

\* the keys of a payload, in the order of the dict
PayloadKeys ==
    <<"dataset", "contract_id", "owner", "status", "errors", "warnings",
      "violations", "ts">>

\* json.dumps(payload): the members of the object, in the order of the dict
json_dumps(d) ==
    LET keys == SelectSeq(PayloadKeys, LAMBDA k : k \in DOMAIN d)
    IN  [i \in 1..Len(keys) |-> [key |-> keys[i], value |-> d[keys[i]]]]

\* json.loads(text): the dict of the members
json_loads(text) ==
    [k \in {text[i].key : i \in DOMAIN text} |->
        text[CHOOSE i \in DOMAIN text : text[i].key = k].value]

\* store.py:26-34, INSERT INTO events (ts, payload) VALUES (time.time(),
\* json.dumps(payload)): the next id, and NULL in every other column
insert_event(table, payload, t) ==
    Append(table,
           [id |-> Len(table) + 1, ts |-> t, payload |-> json_dumps(payload),
            dataset |-> SqlNull, contract_id |-> SqlNull, owner |-> SqlNull,
            status |-> SqlNull, errors |-> SqlNull, warnings |-> SqlNull,
            violations |-> SqlNull])

\* ORDER BY id DESC of rows kept in the order of id
OrderByIdDesc(table) == [i \in 1..Len(table) |-> table[Len(table) + 1 - i]]

\* LIMIT n: the first n rows, every row for a negative n
Limit(table, n) ==
    IF n < 0 \/ n >= Len(table) THEN table ELSE SubSeq(table, 1, n)

\* store.py:46-49: d = json.loads(payload); d["_ts"] = ts
Decode(table) ==
    [i \in 1..Len(table) |->
        [_ts |-> table[i].ts] @@ json_loads(table[i].payload)]

\* store.py:36-50
fetch_events(table, limit) == Decode(Limit(OrderByIdDesc(table), limit))

\* mutant: ORDER BY id ASC
fetch_since_OldestFirst(table, since_ts, limit) ==
    Decode(Limit(SelectSeq(table, LAMBDA row : row.ts >= since_ts), limit))

\* store.py:52-69
fetch_since(table, since_ts, limit) ==
    Decode(Limit(OrderByIdDesc(SelectSeq(table, LAMBDA row : row.ts >= since_ts)),
                 limit))

\* --- the events that are stored ---------------------------------------
None  == <<"N", "o", "n", "e">>
Ds_or == <<"o", "r">>
Ds_us == <<"u", "s">>
Ow_sa == <<"s", "a">>

\* Event.model_dump(): an event of the model Event (app.py:92-99)
Evt(dataset, owner, status, violations) ==
    [dataset |-> dataset, contract_id |-> dataset, owner |-> owner,
     status |-> status,
     errors |-> IF status = "fail" THEN <<"Completeness 0.00% below target 50.00%">>
                ELSE <<>>,
     warnings |-> <<>>, violations |-> violations]

FreshnessViol ==
    [dimension |-> <<"f", "r", "e", "s", "h", "n", "e", "s", "s">>,
     actual_seconds |-> 7200, expected |-> "1h"]
CompletenessViol ==
    [dimension |-> <<"c", "o", "m", "p", "l", "e", "t", "e", "n", "e", "s", "s">>,
     actual |-> "0.00%", expected |-> ">=50%"]

Evts ==
    {Evt(Ds_or, Ow_sa, "fail", <<CompletenessViol>>),
     Evt(Ds_us, None, "fail", <<FreshnessViol>>),
     Evt(Ds_or, Ow_sa, "pass", <<>>)}

\* the readings of time.time() of the event service: up to MaxClock days
\* after the first one
GoverniqClock == {Now0 + Sec(86400 * k) : k \in 0..MaxClock}

\* the readings of time.time() while the store alone is exercised
StoreClock == {Now0 + Sec(k) : k \in 0..MaxClock}

\* the payloads that are inserted into the store alone: an event with the
\* key ts that ingest_event adds, and one without
StorePayloads ==
    {Evt(Ds_or, Ow_sa, "fail", <<CompletenessViol>>) @@ [ts |-> Now0 \div TicksPerSecond],
     Evt(Ds_us, None, "pass", <<>>)}

Limits == (0 - 1)..(MaxEvents + 1)

\* no call of validate_rows is modelled
CallIdle ==
    /\ contract = Contract(NoSchema, NoSla)
    /\ rows = <<>>
    /\ result = NoResult
    /\ pc = "idle"
    /\ rows2 = <<>>
    /\ result2 = NoResult

\* store = Store(db_path=DB_PATH); store.init(): an empty table
InitStore ==
    /\ CallIdle
    /\ HandlerIdle
    /\ GoverniqIdle
    /\ now = Now0

\* time.time() will return a later reading
StoreTick ==
    /\ \E t \in StoreClock : t > now /\ now' = t
    /\ UNCHANGED <<contract, rows, result, pc, rows2, result2, handlerVars, governiqVars>>

InsertEvent ==
    /\ Len(events) < MaxEvents
    /\ \E payload \in StorePayloads :
          /\ events' = insert_event(events, payload, now)
          /\ inserted' = Append(inserted, [payload |-> payload, t |-> now])
    /\ reply' = [op |-> "insert_event"]
    /\ UNCHANGED <<contract, rows, now, result, pc, rows2, result2, handlerVars,
                   env, alerts>>

FetchEvents ==
    /\ \E limit \in Limits :
          reply' = [op |-> "fetch_events", limit |-> limit,
                    out |-> fetch_events(events, limit)]
    /\ UNCHANGED <<contract, rows, now, result, pc, rows2, result2, handlerVars,
                   env, events, alerts, inserted>>

FetchSince ==
    /\ \E since_ts \in StoreClock, limit \in Limits :
          reply' = [op |-> "fetch_since", since_ts |-> since_ts, limit |-> limit,
                    out |-> fetch_since(events, since_ts, limit)]
    /\ UNCHANGED <<contract, rows, now, result, pc, rows2, result2, handlerVars,
                   env, events, alerts, inserted>>

NextStore == StoreTick \/ InsertEvent \/ FetchEvents \/ FetchSince

SpecStore == InitStore /\ [][NextStore]_vars

(***************************************************************************)
(* governiq_service/app.py: POST /events (ingest_event), POST /import.json,*)
(* GET /events, GET /analytics, GET /analytics/fails_per_day.              *)
(***************************************************************************)
\* str.split(","): the pieces between the commas, at least one
RECURSIVE SplitFrom(_, _)
SplitFrom(s, piece) ==
    IF s = <<>> THEN <<piece>>
    ELSE IF Head(s) = "," THEN <<piece>> \o SplitFrom(Tail(s), <<>>)
    ELSE SplitFrom(Tail(s), Append(piece, Head(s)))

Split(s) == SplitFrom(s, <<>>)

\* line 22: set(os.getenv("ALERT_DATASETS", "").split(","))
ALERT_DATASETS(e) == {Split(e.ALERT_DATASETS)[i] : i \in DOMAIN Split(e.ALERT_DATASETS)}

\* lines 24-26: not ALERT_DATASETS or ds in ALERT_DATASETS
should_alert(e, ds) == ALERT_DATASETS(e) = {} \/ ds \in ALERT_DATASETS(e)

\* line 144: how requests.post ends in a module that imports no requests
SlackOutcomes == {Failed("NameError")}

\* lines 101-149: the event gets the key ts, is stored, is alerted about
\* when it failed and the webhook and the filter allow it; {"ok": True}
ingest_event(e, table, sent, evt, t, outcome) ==
    LET data   == evt @@ [ts |-> t \div TicksPerSecond]
        stored == insert_event(table, data, t)
        ds     == data.dataset
        owner  == IF data.owner \in {None, <<>>} THEN <<"n", "/", "a">> ELSE data.owner
    IN  [data   |-> data,
         events |-> stored,
         alerts |-> IF e.SLACK_WEBHOOK # <<>> /\ data.status = "fail" /\ should_alert(e, ds)
                    THEN Append(sent, [dataset |-> ds, owner |-> owner,
                                       violations |-> data.violations,
                                       row |-> Len(stored), outcome |-> outcome])
                    ELSE sent,
         reply  |-> [op |-> "ingest_event", ok |-> TRUE]]

\* does pat occur in s
Contains(s, pat) ==
    \E i \in 0..(Len(s) - Len(pat)) : SubSeq(s, i + 1, i + Len(pat)) = pat

\* column = 'text' and column LIKE '%pat%' of SQL: not true of NULL
SqlEq(col, text)  == ~col.null /\ col.v = text
SqlLike(col, pat) == ~col.null /\ Contains(col.v, pat)

\* DATE(datetime(ts, 'unixepoch')): the day of the epoch second
Day(ts) == (ts \div TicksPerSecond) \div 86400

\* the numbers of a set in ascending order
RECURSIVE Ascending(_)
Ascending(S) ==
    IF S = {} THEN <<>>
    ELSE LET least == CHOOSE x \in S : \A y \in S : x <= y
         IN  <<least>> \o Ascending(S \ {least})

\* lines 168-201: SELECT day, COUNT(*) FROM events WHERE status = 'fail' AND
\* ts >= strftime('%s','now','-N days') [AND owner = ?] [AND (dataset LIKE ?
\* OR owner LIKE ? OR contract_id LIKE ?)] [AND violations LIKE ?]
\* GROUP BY day ORDER BY day
fails_per_day(table, t, days, owner, q, dimension) ==
    LET cutoff == Sec((t \div TicksPerSecond) - days * 86400)
        hit(row) ==
            /\ SqlEq(row.status, <<"f", "a", "i", "l">>)
            /\ row.ts >= cutoff
            /\ owner # <<>> => SqlEq(row.owner, owner)
            /\ q # <<>> => \/ SqlLike(row.dataset, q)
                            \/ SqlLike(row.owner, q)
                            \/ SqlLike(row.contract_id, q)
            /\ dimension # <<>> => SqlLike(row.violations, dimension)
        hits == {i \in DOMAIN table : hit(table[i])}
        days_ == Ascending({Day(table[i].ts) : i \in hits})
    IN  [k \in DOMAIN days_ |->
            [day |-> days_[k],
             fail_count |-> Cardinality({i \in hits : Day(table[i].ts) = days_[k]})]]

\* lines 343-376: the events of the last hours, counted by status, and the
\* failing ones by dataset
analytics(table, t, hours) ==
    LET evs      == fetch_since(table, t - Sec(hours * 3600), 5000)
        count(P(_)) == Cardinality({i \in DOMAIN evs : P(evs[i])})
        statuses == {evs[i].status : i \in DOMAIN evs}
        failing  == {evs[i].dataset : i \in {j \in DOMAIN evs : evs[j].status = "fail"}}
    IN  [window_hours |-> hours,
         total_events |-> Len(evs),
         status_counts |-> [st \in statuses |-> count(LAMBDA e : e.status = st)],
         failing_datasets |->
             [ds \in failing |-> count(LAMBDA e : e.status = "fail" /\ e.dataset = ds)]]

\* --- configurations and requests ----------------------------------------
Webhook == <<"h", "t", "t", "p", "s">>

Envs ==
    {[SLACK_WEBHOOK |-> <<>>, ALERT_DATASETS |-> <<>>],
     [SLACK_WEBHOOK |-> Webhook, ALERT_DATASETS |-> <<>>],
     [SLACK_WEBHOOK |-> Webhook, ALERT_DATASETS |-> Ds_or],
     [SLACK_WEBHOOK |-> Webhook, ALERT_DATASETS |-> Ds_or \o <<",", " ">> \o Ds_us]}

ImportEvts == {Evt(Ds_us, <<>>, "fail", <<>>)}

FailsQueries ==
    {[days |-> 1, owner |-> <<>>, q |-> <<>>, dimension |-> <<>>],
     [days |-> 30, owner |-> <<>>, q |-> <<>>, dimension |-> <<>>],
     [days |-> 30, owner |-> Ow_sa, q |-> <<>>, dimension |-> <<>>],
     [days |-> 30, owner |-> <<>>, q |-> <<"o">>, dimension |-> <<"f", "r", "e", "s", "h">>]}

\* the module is loaded: the table is empty, the environment is read
InitGoverniq ==
    /\ CallIdle
    /\ HandlerIdle
    /\ now = Now0
    /\ env \in Envs
    /\ events = <<>>
    /\ alerts = <<>>
    /\ reply = NoReply
    /\ inserted = <<>>

\* time.time() will return a later reading
GoverniqTick ==
    /\ \E t \in GoverniqClock : t > now /\ now' = t
    /\ UNCHANGED <<contract, rows, result, pc, rows2, result2, handlerVars, governiqVars>>

\* POST /events
IngestEvent ==
    /\ Len(events) < MaxEvents
    /\ \E evt \in Evts, outcome \in SlackOutcomes :
          LET h == ingest_event(env, events, alerts, evt, now, outcome)
          IN  /\ events' = h.events
              /\ alerts' = h.alerts
              /\ reply' = h.reply
              /\ inserted' = Append(inserted, [payload |-> h.data, t |-> now])
    /\ UNCHANGED <<contract, rows, now, result, pc, rows2, result2, handlerVars, env>>

\* POST /import.json with one event: store.insert_event(evt.model_dump())
ImportJson ==
    /\ Len(events) < MaxEvents
    /\ \E evt \in ImportEvts :
          /\ events' = insert_event(events, evt, now)
          /\ inserted' = Append(inserted, [payload |-> evt, t |-> now])
    /\ reply' = [op |-> "import_json", imported |-> 1]
    /\ UNCHANGED <<contract, rows, now, result, pc, rows2, result2, handlerVars,
                   env, alerts>>

\* GET /analytics/fails_per_day
FailsPerDay ==
    /\ \E a \in FailsQueries :
          reply' = [op |-> "fails_per_day", args |-> a,
                    out |-> fails_per_day(events, now, a.days, a.owner, a.q, a.dimension)]
    /\ UNCHANGED <<contract, rows, now, result, pc, rows2, result2, handlerVars,
                   env, events, alerts, inserted>>

\* GET /analytics
Analytics ==
    /\ \E hours \in {24, 720} :
          reply' = [op |-> "analytics", out |-> analytics(events, now, hours)]
    /\ UNCHANGED <<contract, rows, now, result, pc, rows2, result2, handlerVars,
                   env, events, alerts, inserted>>

NextGoverniq == GoverniqTick \/ IngestEvent \/ ImportJson \/ FailsPerDay \/ Analytics

SpecGoverniq == InitGoverniq /\ [][NextGoverniq]_vars

(***************************************************************************)
(* Properties of validate_rows.                                            *)
(***************************************************************************)
Returned == pc = "done" /\ ~result.raised

Kinds(msgs) == {msgs[i].kind : i \in DOMAIN msgs}

EmptySchema == contract.schema.t = "none" \/ contract.schema.items = <<>>

\* C1: a contract whose schema is missing or empty gets exactly the verdict
\* fail / ["Missing 'schema' in contract"] / no warnings / no violations,
\* whatever the rows and the SLA block are.
C1_EmptySchemaVerdict ==
    (pc = "done" /\ EmptySchema)
        => result = Verdict("fail", <<>>, <<MissingSchemaMsg>>, <<>>)

\* C1 witness: an empty schema validated with rows, a completeness target
\* and a freshness bound that would otherwise be evaluated
C1_Witness ==
    /\ pc = "done" /\ EmptySchema
    /\ rows # <<>>
    /\ contract.sla.completeness = Text_ge100
    /\ contract.sla.freshness = Text_1h
    /\ result.errors = <<MissingSchemaMsg>>

\* C2: in every verdict, status is "fail" exactly when errors is non-empty
\* and "pass" otherwise, whatever the warnings are.
C2_StatusIffErrors ==
    Returned =>
        /\ result.status \in {"pass", "fail"}
        /\ (result.status = "fail") <=> (result.errors # <<>>)

\* C2 witness: a verdict that passes although it carries a warning
C2_Witness ==
    /\ Returned
    /\ result.warnings # <<>>
    /\ result.errors = <<>>
    /\ result.status = "pass"

IsSlaError(m) == m.kind \in {"Completeness below target", "Freshness violated"}

\* the error string that is appended together with a violation record
ErrorMatches(m, v) ==
    \/ /\ v.dimension = "completeness"
       /\ m.kind = "Completeness below target"
       /\ m.x = v.actual
    \/ /\ v.dimension = "freshness"
       /\ m.kind = "Freshness violated"
       /\ m.raw = v.expected

\* C3: every violation record comes with the error string appended with it
\* (the errors of the two threshold checks and the violations pair up in
\* order), so a verdict with a violation has status "fail".
C3_ViolationsHaveErrors ==
    Returned =>
        LET slaErrors == SelectSeq(result.errors, IsSlaError)
        IN  /\ Len(slaErrors) = Len(result.violations)
            /\ \A i \in DOMAIN result.violations :
                   ErrorMatches(slaErrors[i], result.violations[i])
            /\ result.violations # <<>> => result.status = "fail"

\* C3 witness: a verdict with a completeness and a freshness violation
C3_Witness ==
    /\ Returned
    /\ {result.violations[i].dimension : i \in DOMAIN result.violations}
           = {"completeness", "freshness"}
    /\ result.status = "fail"

\* ---- the SLA block of the call, as the checks read it -------------------
CompRaw    == Strip(OrEmpty(SlaOf(contract).completeness))
CompTarget == ParseFloat(Strip(Remove(Remove(CompRaw, <<">", "=">>), <<"%">>)))
FreshRaw   == Strip(OrEmpty(SlaOf(contract).freshness))
FreshField == Strip(OrEmpty(SlaOf(contract).freshness_field))

IsCompletenessError(m) == m.kind = "Completeness below target"
IsCompletenessWarn(m)  == m.kind = "Could not parse completeness SLA"
IsCompletenessViol(v)  == v.dimension = "completeness"
IsFreshnessError(m)    == m.kind \in {"Freshness violated",
                                      "No valid timestamps to assess freshness"}
IsFreshnessWarn(m)     == m.kind = "Could not parse freshness SLA"
IsFreshnessViol(v)     == v.dimension = "freshness"

\* the dimension an SLA error belongs to
DimensionOf(kind) ==
    IF kind = "Completeness below target" THEN "completeness" ELSE "freshness"

\* C4: every SLA violation (completeness below target, freshness bound
\* exceeded, no valid timestamp in the freshness field) is in errors and
\* has a record of its dimension in violations.
C4_SlaViolationsRecordedTwice ==
    Returned =>
        \A i \in DOMAIN result.errors :
            (IsCompletenessError(result.errors[i]) \/ IsFreshnessError(result.errors[i]))
                => \E j \in DOMAIN result.violations :
                       result.violations[j].dimension = DimensionOf(result.errors[i].kind)

\* rows of rs in which every declared column is non-null after coercion, a
\* value that is missing counting as null
PopulatedRows(rs) ==
    LET co == CoerceFrom(SchemaOf(contract), 1, DataFrame(rs), <<>>)
    IN  Cardinality({j \in 1..Len(rs) :
            \A c \in RequiredCols(SchemaOf(contract)) :
                c \in DOMAIN co.df /\ ~IsNa(co.df[c][j])})

CoercionErrorKinds ==
    {"Missing required column", "has invalid datetime values", "failed coercion to"}

\* C5: after a coercion error every declared column is still checked, and
\* a parseable completeness target is still evaluated over the rows
\* (missing values counting as null): no skip, and a violation when the
\* ratio is below the target.
C5_CoercionErrorDoesNotSkip ==
    (/\ Returned /\ ~EmptySchema /\ rows # <<>>
     /\ Kinds(result.errors) \cap CoercionErrorKinds # {}
     /\ CompRaw # <<>> /\ CompTarget.ok)
        => /\ \A i \in DOMAIN SchemaOf(contract) :
                  SchemaOf(contract)[i].col \notin DfColumns(rows)
                      => \E e \in DOMAIN result.errors :
                             result.errors[e] = MissingColumnMsg(SchemaOf(contract)[i].col)
           /\ SelectSeq(result.warnings, IsCompletenessWarn) = <<>>
           /\ RatioBelowTarget(PopulatedRows(rows), Len(rows), CompTarget)
                  => SelectSeq(result.violations, IsCompletenessViol) # <<>>

\* the contract of the call without one key of its SLA block
WithoutCompleteness ==
    [contract EXCEPT !.sla = Sla(NoneVal, SlaOf(contract).freshness,
                                 SlaOf(contract).freshness_field)]
WithoutFreshness ==
    [contract EXCEPT !.sla = Sla(SlaOf(contract).completeness, NoneVal,
                                 SlaOf(contract).freshness_field)]

\* an expression of the form <integer><unit>, unit one of s, m, h, d
WellFormedFreshness(f) ==
    LET ds == DigitPrefix(f)
    IN  /\ ds # <<>>
        /\ Len(f) = Len(ds) + 1
        /\ f[Len(f)] \in {"s", "m", "h", "d"}

\* C6: a completeness expression that does not parse as a number gives
\* exactly its warning, no completeness error or violation, and the status
\* of the same contract without the expression; likewise a malformed
\* freshness expression (read with the freshness check reached, i.e.
\* freshness_field a column of the row set) gives exactly its warning, no
\* freshness error or violation, and the status of the contract without it.
C6_MalformedSlaOnlyWarns ==
    (Returned /\ ~EmptySchema) =>
        /\ (CompRaw # <<>> /\ ~CompTarget.ok) =>
              /\ SelectSeq(result.warnings, IsCompletenessWarn) = <<CompletenessWarn(CompRaw)>>
              /\ SelectSeq(result.errors, IsCompletenessError) = <<>>
              /\ SelectSeq(result.violations, IsCompletenessViol) = <<>>
              /\ result.status = validate_rows(WithoutCompleteness, rows, now).status
        /\ (/\ FreshRaw # <<>> /\ FreshField \in DfColumns(rows)
            /\ ~WellFormedFreshness(FreshRaw)) =>
              /\ SelectSeq(result.warnings, IsFreshnessWarn) = <<FreshnessWarn(FreshRaw)>>
              /\ SelectSeq(result.errors, IsFreshnessError) = <<>>
              /\ SelectSeq(result.violations, IsFreshnessViol) = <<>>
              /\ result.status = validate_rows(WithoutFreshness, rows, now).status

\* the logical type a type tag declares
LogicalType(typ) ==
    CASE typ \in {"float", "double", "number", "Float"}             -> "float"
      [] typ \in {"integer", "int"}                                 -> "integer"
      [] typ \in {"boolean", "bool"}                                -> "boolean"
      [] typ \in {"datetime", "timestamp", "date", "DateTime"}      -> "datetime"
      [] OTHER                                                      -> "string"

\* the cell is present and is a value of the declared type
TypedCell(typ, cell) ==
    CASE LogicalType(typ) = "float"    -> cell.tag = "int"
      [] LogicalType(typ) = "integer"  -> cell.tag = "int"
      [] LogicalType(typ) = "boolean"  -> cell.tag = "bool"
      [] LogicalType(typ) = "datetime" -> cell.tag \in {"ts_naive", "ts_aware"}
      [] LogicalType(typ) = "string"   -> cell.tag \in TextTags

FullyTyped ==
    \A i \in DOMAIN SchemaOf(contract) : \A j \in DOMAIN rows :
        TypedCell(SchemaOf(contract)[i].typ, rows[j][SchemaOf(contract)[i].col])

NoSlaBlock ==
    /\ SlaOf(contract).completeness = NoneVal
    /\ SlaOf(contract).freshness = NoneVal
    /\ SlaOf(contract).freshness_field = NoneVal

\* C7 as stated: a non-empty schema, every declared column fully populated
\* with values of the declared type in every row, and no SLA block give
\* status "pass" and no errors.
C7_TypedRowsPass ==
    (pc = "done" /\ ~EmptySchema /\ NoSlaBlock /\ FullyTyped)
        => (~result.raised /\ result.status = "pass" /\ result.errors = <<>>)

\* C7 amended: the same for a row set with at least one row (with no row
\* the frame has no column and every declared column is reported missing).
C7_TypedNonEmptyRowsPass ==
    (pc = "done" /\ ~EmptySchema /\ NoSlaBlock /\ FullyTyped /\ rows # <<>>)
        => (~result.raised /\ result.status = "pass" /\ result.errors = <<>>)

\* C7 witness: two typed rows under a schema of two columns pass
C7_Witness ==
    /\ pc = "done" /\ NoSlaBlock /\ FullyTyped
    /\ Len(SchemaOf(contract)) = 2
    /\ Len(rows) = 2
    /\ result.status = "pass"

\* C8: with a parseable target and n > 0 rows of which k have every declared
\* column non-null, a completeness violation is recorded exactly when
\* 100*k/n + 1e-9 < target: then one error with ratio and target, one record
\* (completeness, ratio, raw expression) and nothing else; otherwise the
\* completeness check appends nothing.
C8_CompletenessThreshold ==
    (Returned /\ ~EmptySchema /\ rows # <<>> /\ CompRaw # <<>> /\ CompTarget.ok) =>
        LET k == PopulatedRows(rows)
            n == Len(rows)
        IN  /\ SelectSeq(result.warnings, IsCompletenessWarn) = <<>>
            /\ IF RatioBelowTarget(k, n, CompTarget)
               THEN /\ SelectSeq(result.errors, IsCompletenessError)
                          = <<CompletenessMsg(FormatRatio(k, n), FormatTarget(CompTarget))>>
                    /\ SelectSeq(result.violations, IsCompletenessViol)
                          = <<Violation("completeness", "actual", FormatRatio(k, n), CompRaw)>>
               ELSE /\ SelectSeq(result.errors, IsCompletenessError) = <<>>
                    /\ SelectSeq(result.violations, IsCompletenessViol) = <<>>

\* the verdict carries no completeness violation
PassesCompleteness(r) == SelectSeq(r.violations, IsCompletenessViol) = <<>>

\* C9: for one schema, target and row count, if a row set passes the
\* completeness check then a row set with at least as many fully populated
\* rows passes it too.
C9_CompletenessMonotonic ==
    (/\ pc = "done2" /\ ~result.raised /\ ~result2.raised
     /\ CompRaw # <<>> /\ CompTarget.ok
     /\ PassesCompleteness(result)
     /\ PopulatedRows(rows2) >= PopulatedRows(rows))
        => PassesCompleteness(result2)

\* the valid timestamps of the freshness field in the rows
ValidTimestamps ==
    {rows[j][FreshField] : j \in {i \in DOMAIN rows :
        rows[i][FreshField].tag \in {"ts_naive", "ts_aware"}}}

\* C10: with a freshness expression <N><unit>, the field a column of the
\* rows and a valid timestamp in it, a freshness violation is recorded
\* exactly when now minus the latest valid timestamp exceeds N times the
\* unit (s=1, m=60, h=3600, d=86400); the record is (freshness, whole seconds
\* of that age, raw expression).
C10_FreshnessThreshold ==
    (/\ Returned /\ ~EmptySchema
     /\ WellFormedFreshness(FreshRaw)
     /\ FreshField \in DfColumns(rows)
     /\ ValidTimestamps # {}) =>
        LET amount  == IntOf(DigitPrefix(FreshRaw))
            unit    == FreshRaw[Len(FreshRaw)]
            factor  == CASE unit = "s" -> 1 [] unit = "m" -> 60
                         [] unit = "h" -> 3600 [] unit = "d" -> 86400
            latest  == CHOOSE t \in {c.v : c \in ValidTimestamps} :
                           \A c \in ValidTimestamps : c.v <= t
            age     == now - latest
        IN  SelectSeq(result.violations, IsFreshnessViol)
              = IF age > Sec(amount * factor)
                THEN <<Violation("freshness", "actual_seconds",
                                 age \div TicksPerSecond, FreshRaw)>>
                ELSE <<>>

\* C11: with freshness_field a column of the rows, a non-empty freshness
\* expression that is not of the form <integer><unit> (unit one of s, m, h,
\* d), trailing characters after the unit included, gives exactly the warning
\* "Could not parse freshness SLA '<raw>'" and no freshness error and no
\* freshness violation.
C11_FreshnessFormOnly ==
    (/\ Returned /\ ~EmptySchema
     /\ FreshRaw # <<>> /\ FreshField \in DfColumns(rows)
     /\ ~WellFormedFreshness(FreshRaw)) =>
        /\ SelectSeq(result.warnings, IsFreshnessWarn) = <<FreshnessWarn(FreshRaw)>>
        /\ SelectSeq(result.errors, IsFreshnessError) = <<>>
        /\ SelectSeq(result.violations, IsFreshnessViol) = <<>>

\* the contract of the call without the freshness keys of its SLA block
WithoutFreshnessKeys ==
    [contract EXCEPT !.sla = Sla(SlaOf(contract).completeness, NoneVal, NoneVal)]

\* the freshness check of the call has nothing to run on
FreshnessSkipped ==
    \/ FreshRaw = <<>>
    \/ FreshField = <<>>
    \/ FreshField \notin DfColumns(rows)

\* C12: when the SLA block lacks freshness, or lacks freshness_field, or
\* freshness_field is not a column of the rows, the verdict carries no
\* freshness error, warning or violation and is the verdict of coercion and
\* the completeness check alone, whatever the freshness expression.
C12_FreshnessSkippedSilently ==
    (Returned /\ FreshnessSkipped) =>
        /\ SelectSeq(result.errors, IsFreshnessError) = <<>>
        /\ SelectSeq(result.warnings, IsFreshnessWarn) = <<>>
        /\ SelectSeq(result.violations, IsFreshnessViol) = <<>>
        /\ result = validate_rows(WithoutFreshnessKeys, rows, now)

\* C12 witness: an expression (well-formed or not) whose field is not a
\* column of the rows, in a call that reports a coercion error
C12_Witness ==
    /\ Returned /\ ~EmptySchema
    /\ FreshRaw # <<>> /\ FreshField # <<>> /\ FreshField \notin DfColumns(rows)
    /\ rows # <<>>
    /\ Kinds(result.errors) \cap CoercionErrorKinds # {}

\* C13: two calls of validate_rows with equal contract and equal rows
\* return equal verdicts, freshness outcome and actual_seconds included,
\* whenever the calls are made.
C13_EqualInputsEqualVerdicts ==
    (pc = "done2" /\ rows2 = rows) => result2 = result

\* C14: for a schema of strings and an SLA block whose values are of any
\* JSON type (numbers included) and every row set, validate_rows returns a
\* verdict with status, warnings, errors and violations; no exception
\* reaches the caller.
C14_AlwaysAVerdict ==
    pc = "done" => (~result.raised /\ result.status \in {"pass", "fail"})

\* the raw value is present, non-null and non-empty and is no date/time
FailsToParse(cell) == cell.tag = "str_bad"

\* C16: for a column declared datetime, timestamp or date that is a column
\* of the rows, "Column '<column>' has invalid datetime values" is in errors
\* if and only if some row has a raw value that is non-null and non-empty
\* and fails to parse; raw nulls and missing keys alone do not produce it.
C16_InvalidDatetimeIffUnparseable ==
    (Returned /\ ~EmptySchema) =>
        \A i \in DOMAIN SchemaOf(contract) :
            LET col == SchemaOf(contract)[i].col
            IN  (/\ LogicalType(SchemaOf(contract)[i].typ) = "datetime"
                 /\ col \in DfColumns(rows))
                    => ((\E e \in DOMAIN result.errors :
                            result.errors[e] = InvalidDatetimeMsg(col))
                        <=> (\E j \in DOMAIN rows : FailsToParse(rows[j][col])))

(***************************************************************************)
(* Properties of POST /validate.                                           *)
(***************************************************************************)
Responded == pc = "responded"

\* the request that was made to GOVERNIQ_URL/events, if one was
ForwardingFailed == posted # <<>> /\ posted[Len(posted)].outcome.raised

\* C15: whatever the outcome of forwarding the event (a status code,
\* 2xx or not, a connection error, a timeout), the response carries the
\* verdict as validate_rows returned it, event.forwarded_to_governiq holds
\* the status code or the failure with its reason, and the response is no
\* error response.
C15_ForwardingNeverFailsResponse ==
    (Responded /\ posted # <<>>) =>
        LET o == posted[Len(posted)].outcome
        IN  /\ DOMAIN response = {"validation", "event"}
            /\ response.validation = VerdictDict(result)
            /\ ~result.raised
            /\ response.event.forwarded_to_governiq
                   = IF o.raised THEN [failed |-> o.reason]
                                 ELSE [status_code |-> o.status_code]

\* C15 witness: a failing verdict whose forwarding timed out
C15_Witness ==
    /\ Responded /\ ForwardingFailed
    /\ posted[1].outcome.reason = "ReadTimeout"
    /\ result.status = "fail" /\ result.violations # <<>>
    /\ "validation" \in DOMAIN response

\* C17: when validate_rows raises, the response has the keys error and
\* type and no validation key, and no event is built or posted; an event is
\* posted only after a verdict was produced, and it is the event of that
\* verdict.
C17_NoVerdictNoEvent ==
    Responded =>
        /\ result.raised =>
              /\ DOMAIN response = {"error", "type"}
              /\ event = NoEvent
              /\ posted = <<>>
        /\ posted # <<>> =>
              /\ ~result.raised
              /\ Len(posted) = 1
              /\ posted[1].json.status = result.status
              /\ posted[1].json.errors = result.errors

\* C17 witness: a numeric completeness value made validate_rows raise
C17_Witness ==
    /\ Responded /\ result.raised
    /\ SlaOf(contract).completeness.t = "num"
    /\ "error" \in DOMAIN response

(***************************************************************************)
(* Properties of the event store.                                          *)
(***************************************************************************)
Min(a, b) == IF a <= b THEN a ELSE b

\* the event fetched for the j-th call of insert_event
Stored(j) == [_ts |-> inserted[j].t] @@ inserted[j].payload

\* the calls of insert_event made at or after since_ts, the latest first
LatestSince(since_ts) ==
    LET n      == Len(inserted)
        latest == [i \in 1..n |-> n + 1 - i]
    IN  SelectSeq(latest, LAMBDA j : inserted[j].t >= since_ts)

\* C18: after any sequence of insert_event calls, fetch_events(limit) with
\* limit >= 0 returns min(limit, n) events, the most recently inserted ones,
\* newest first, each the inserted payload plus _ts; fetch_since(since_ts,
\* limit) returns, newest first, only events stored at or after since_ts,
\* and the newest limit of them when more than limit match.
C18_FetchNewestFirst ==
    /\ (reply.op = "fetch_events" /\ reply.limit >= 0) =>
          LET n == Len(inserted)
          IN  /\ Len(reply.out) = Min(reply.limit, n)
              /\ \A i \in 1..Len(reply.out) : reply.out[i] = Stored(n + 1 - i)
    /\ (reply.op = "fetch_since" /\ reply.limit >= 0) =>
          LET match == LatestSince(reply.since_ts)
          IN  /\ Len(reply.out) = Min(reply.limit, Len(match))
              /\ \A i \in 1..Len(reply.out) : reply.out[i] = Stored(match[i])

\* C18 witness: three events stored at two times, two of them at or after
\* since_ts, fetched with limit 1
C18_Witness ==
    /\ reply.op = "fetch_since" /\ reply.limit = 1
    /\ Len(inserted) = 3
    /\ Len(LatestSince(reply.since_ts)) = 2
    /\ Len(reply.out) = 1

(***************************************************************************)
(* Properties of the event service.                                        *)
(***************************************************************************)
\* the alerts attempted for the j-th stored event
AlertsFor(j) == SelectSeq(alerts, LAMBDA a : a.row = j)

Failing(j) == inserted[j].payload.status = "fail"

\* the j-th event was stored by POST /events, which adds the key ts
Ingested(j) == "ts" \in DOMAIN inserted[j].payload

\* C19: with a Slack webhook configured, an alert is attempted only for
\* events of status "fail"; with no ALERT_DATASETS filter every failing
\* event of POST /events is alerted about, with a filter only events of
\* listed datasets are; the event is stored when the alert is attempted,
\* and the response is {"ok": true} whatever the alert's outcome.
C19_FailingEventsAlert ==
    /\ \A k \in DOMAIN alerts :
          /\ alerts[k].row \in DOMAIN events
          /\ Failing(alerts[k].row)
          /\ alerts[k].dataset = inserted[alerts[k].row].payload.dataset
          /\ env.ALERT_DATASETS # <<>> => alerts[k].dataset \in ALERT_DATASETS(env)
    /\ (env.SLACK_WEBHOOK # <<>> /\ env.ALERT_DATASETS = <<>>) =>
          \A j \in DOMAIN inserted :
              (Failing(j) /\ Ingested(j)) => Len(AlertsFor(j)) = 1
    /\ reply.op = "ingest_event" => reply.ok

\* the j-th stored event failed, is of the last days days and matches the
\* optional filters of the query a
CountedBy(a, j) ==
    LET e == inserted[j].payload
    IN  /\ Failing(j)
        /\ inserted[j].t >= now - Sec(a.days * 86400)
        /\ a.owner # <<>> => e.owner = a.owner
        /\ a.q # <<>> => \/ Contains(e.dataset, a.q)
                         \/ Contains(e.owner, a.q)
                         \/ Contains(e.contract_id, a.q)
        /\ a.dimension # <<>> =>
               \E v \in DOMAIN e.violations : Contains(e.violations[v].dimension, a.dimension)

\* C20: fails_per_day counts every stored event of status "fail" of the
\* last days days that matches the optional filters once, in the fail_count
\* of its day.
C20_FailsCountedPerDay ==
    reply.op = "fails_per_day" =>
        LET counted == {j \in DOMAIN inserted : CountedBy(reply.args, j)}
        IN  \A j \in counted :
                \E k \in DOMAIN reply.out :
                    /\ reply.out[k].day = Day(inserted[j].t)
                    /\ reply.out[k].fail_count
                           = Cardinality({i \in counted :
                                 Day(inserted[i].t) = Day(inserted[j].t)})

====
